---------------------------- MODULE Spec2Model ----------------------------
(***************************************************************************)
(* Model of the Minerva fetcher (package main, the version with the two   *)
(* bounded retry loops): main, scrapeMinervaData, the two colly OnHTML    *)
(* callbacks extractCurrentStatus / extractSaleInfo, postToDiscord and    *)
(* printJSON.                                                              *)
(*                                                                         *)
(* Go strings are modelled as sequences of one-character strings, so that *)
(* strings.TrimSpace and strings.Split are computed and not assumed.      *)
(***************************************************************************)
EXTENDS Integers, Sequences, FiniteSets, TLC

VARIABLES
    pc,             \* position of main: "scrape", "scrape_sleep", "scrape_check",
                    \* "notify", "notify_sleep", "notify_check", "report", "exited";
                    \* "callbacks" / "string" in the two function-level specifications
    i,              \* loop counter of the current retry loop of main
    data,           \* main's `data` (*MinervaData): NilData or a record
    err,            \* main's `err`: NoErr or the kind of the last error
    minervaData,    \* the record the callbacks of the last scrape wrote into
    lastDoc,        \* what the last c.Visit fetched: NoDoc or a document
    webhookURL,     \* os.Getenv("DISCORD_WEBHOOK_URL"): <<>> when unset or empty
    scrapeCalls,    \* number of calls of scrapeMinervaData so far
    notifyCalls,    \* number of calls of postToDiscord so far
    scrapeSleeps,   \* durations (seconds) passed to time.Sleep in the scrape loop
    notifySleeps,   \* durations (seconds) passed to time.Sleep in the notify loop
    posts,          \* outcomes of the HTTP POSTs performed, in order
    stdout,         \* records printed by printJSON
    discardedRows,  \* whether a failed scrape attempt had extracted schedule entries
    exitCode,       \* NotExited, 0 or 1
    elems,          \* rows still to be handed to the extractSaleInfo callback
    handled,        \* rows already handed to the callback, in order
    cell,           \* text of a location cell (second td of a row)
    location        \* result of the location extraction on `cell`, once computed

vars == <<pc, i, data, err, minervaData, lastDoc, webhookURL, scrapeCalls,
          notifyCalls, scrapeSleeps, notifySleeps, posts, stdout, exitCode,
          discardedRows, elems, handled, cell, location>>

--------------------------------------------------------------------------
(* Bounds of the model *)

MaxRows == 2          \* schedule rows per fetched document
MaxContainers == 2    \* div.p-3 blocks per fetched document
MaxElems == 2         \* rows handed to the callback in SpecExtract
MaxPieces == 3        \* pieces a location cell text is assembled from in SpecLocation

--------------------------------------------------------------------------
(* Program constants *)

maxRetries == 3
retryDelay == 5       \* seconds

StatusOK == 200       \* http.StatusOK

NotExited == -1

--------------------------------------------------------------------------
(* Strings *)

WhiteSpace == {" ", "\n", "\t"}

RECURSIVE TrimLeft(_)
TrimLeft(s) ==
    IF s = <<>> THEN s
    ELSE IF Head(s) \in WhiteSpace THEN TrimLeft(Tail(s)) ELSE s

RECURSIVE TrimRight(_)
TrimRight(s) ==
    IF s = <<>> THEN s
    ELSE IF s[Len(s)] \in WhiteSpace THEN TrimRight(SubSeq(s, 1, Len(s) - 1)) ELSE s

\* strings.TrimSpace
TrimSpace(s) == TrimRight(TrimLeft(s))

HasPrefix(s, p) == Len(p) <= Len(s) /\ SubSeq(s, 1, Len(p)) = p

\* strings.Split(s, sep) for a non-empty sep: the pieces of s between the
\* occurrences of sep, found left to right
RECURSIVE SplitFrom(_, _, _)
SplitFrom(s, sep, piece) ==
    IF s = <<>> THEN <<piece>>
    ELSE IF HasPrefix(s, sep)
         THEN <<piece>> \o SplitFrom(SubSeq(s, Len(sep) + 1, Len(s)), sep, <<>>)
         ELSE SplitFrom(Tail(s), sep, Append(piece, Head(s)))

Split(s, sep) == SplitFrom(s, sep, <<>>)

Marker == <<"N", "e", "x", "t">>

\* colly's HTMLElement.ChildText: the text of the matched child, trimmed
ChildText(raw) == TrimSpace(raw)

\* colly's HTMLElement.ChildAttr: the attribute of the matched child, trimmed
ChildAttr(raw) == TrimSpace(raw)

Location_lastPiece(raw) ==
    LET ps == Split(ChildText(raw), Marker) IN TrimSpace(ps[Len(ps)])

\* the `location :=` line of extractSaleInfo
Location(raw) == TrimSpace(Split(ChildText(raw), Marker)[1])

--------------------------------------------------------------------------
(* Records *)

NilData == [nil |-> TRUE]

NoErr == "nil"

EmptyStatus == [NextLocation |-> <<>>, ArrivalTime |-> <<>>]

NewMinervaData_stale == minervaData

\* &MinervaData{SaleSchedule: make([]SaleInfo, 0)}
NewMinervaData == [CurrentStatus |-> EmptyStatus, SaleSchedule |-> <<>>]

\* the callback returned by extractCurrentStatus, applied to one div.p-3 block
extractCurrentStatus(md, e) ==
    [md EXCEPT !.CurrentStatus =
        [NextLocation |-> TrimSpace(ChildText(e.strong)),
         ArrivalTime  |-> ChildAttr(e.countdown)]]

extractSaleInfo_anyField(md, e) ==
    LET sale      == ChildText(e.td1)
        loc       == Location(e.td2)
        startDate == ChildText(e.td3)
        endDate   == ChildText(e.td4)
    IN  IF sale # <<>> \/ loc # <<>> \/ startDate # <<>> \/ endDate # <<>>
        THEN [md EXCEPT !.SaleSchedule = Append(@,
                [SaleNumber |-> TrimSpace(sale), Location |-> loc,
                 StartDate |-> TrimSpace(startDate), EndDate |-> TrimSpace(endDate),
                 IsNext |-> e.bgDark])]
        ELSE md

\* the callback returned by extractSaleInfo, applied to one table row
extractSaleInfo(md, e) ==
    LET sale      == ChildText(e.td1)
        loc       == Location(e.td2)
        startDate == ChildText(e.td3)
        endDate   == ChildText(e.td4)
    IN  IF sale # <<>> /\ loc # <<>> /\ startDate # <<>> /\ endDate # <<>>
        THEN [md EXCEPT !.SaleSchedule = Append(@,
                [SaleNumber |-> TrimSpace(sale), Location |-> loc,
                 StartDate |-> TrimSpace(startDate), EndDate |-> TrimSpace(endDate),
                 IsNext |-> e.bgDark])]
        ELSE md

\* colly runs the OnHTML callbacks in registration order, each over its
\* matches in document order: first every div.p-3, then every schedule row
RECURSIVE RunStatusCallbacks(_, _)
RunStatusCallbacks(md, cs) ==
    IF cs = <<>> THEN md
    ELSE RunStatusCallbacks(extractCurrentStatus(md, Head(cs)), Tail(cs))

RECURSIVE RunRowCallbacks(_, _)
RunRowCallbacks(md, rs) ==
    IF rs = <<>> THEN md
    ELSE RunRowCallbacks(extractSaleInfo(md, Head(rs)), Tail(rs))

setupHandlers(md, doc) ==
    RunRowCallbacks(RunStatusCallbacks(md, doc.containers), doc.rows)

Incomplete_and(md) ==
    md.CurrentStatus.NextLocation = <<>> /\ Len(md.SaleSchedule) = 0

\* the "Validate scraped data" condition of scrapeMinervaData
Incomplete(md) ==
    md.CurrentStatus.NextLocation = <<>> \/ Len(md.SaleSchedule) = 0

--------------------------------------------------------------------------
(* Inputs: what the page and the webhook may answer *)

SeqsUpTo(S, n) == UNION {[1..k -> S] : k \in 0..n}

ContainerSamples ==
    { [strong |-> <<" ", "W", " ">>, countdown |-> <<"9">>],
      [strong |-> <<>>,              countdown |-> <<>>] }

RowSamples ==
    { [td1 |-> <<"1">>, td2 |-> <<"V", " ", "N", "e", "x", "t", ":", "1">>,
       td3 |-> <<"a">>, td4 |-> <<"b">>, bgDark |-> TRUE],
      [td1 |-> <<" ", "2", " ">>, td2 |-> <<"W">>,
       td3 |-> <<"c">>, td4 |-> <<"d">>, bgDark |-> FALSE],
      [td1 |-> <<"3">>, td2 |-> <<" ", "N", "e", "x", "t", "x">>,
       td3 |-> <<"a">>, td4 |-> <<"b">>, bgDark |-> FALSE] }

Docs ==
    [containers : SeqsUpTo(ContainerSamples, MaxContainers),
     rows       : SeqsUpTo(RowSamples, MaxRows)]

NoDoc == [fetched |-> FALSE]

Statuses == {200, 204, 500}

\* client.Do fails; the body cannot be read; or the exchange completes
PostOutcomes ==
    {[kind |-> "send_error"], [kind |-> "read_error", status |-> 200]}
    \cup {[kind |-> "response", status |-> s] : s \in Statuses}


--------------------------------------------------------------------------
(* scrapeMinervaData and postToDiscord as functions of what the network does *)

FetchOutcomes == {NoDoc} \cup Docs

\* scrapeMinervaData: the pair (data, err) it returns and the record its
\* callbacks filled, given what c.Visit fetched
\* (proxy.SOCKS5 only builds a dialer and returns no error, so the log.Fatal
\* of setupCollector is not an outcome here; a failing proxy shows as a
\* failing c.Visit)
scrapeMinervaData(fetched) ==
    IF fetched = NoDoc
    THEN [data |-> NilData, err |-> "visit", md |-> NewMinervaData]
    ELSE LET md == setupHandlers(NewMinervaData, fetched)
         IN  IF Incomplete(md)
             THEN [data |-> NilData, err |-> "incomplete", md |-> md]
             ELSE [data |-> md, err |-> NoErr, md |-> md]

StatusAccepted_any(status) == TRUE

\* the "Check if the response is OK" condition of postToDiscord
StatusAccepted(status) == status = StatusOK

postToDiscord_noUrlCheck(url, outcome) ==
    CASE outcome.kind = "send_error" -> [err |-> "send", posted |-> TRUE]
      [] outcome.kind = "read_error" -> [err |-> "read", posted |-> TRUE]
      [] OTHER -> [err |-> IF StatusAccepted(outcome.status) THEN NoErr ELSE "status",
                   posted |-> TRUE]

\* postToDiscord: the error it returns and whether it sent a POST, given the
\* webhook URL of the environment and what the exchange would yield
\* (json.Marshal of a map of strings and http.NewRequest on a well-formed
\* URL do not fail, so their error returns are not outcomes here)
postToDiscord(url, outcome) ==
    IF url = <<>> THEN [err |-> "config", posted |-> FALSE]
    ELSE CASE outcome.kind = "send_error" -> [err |-> "send", posted |-> TRUE]
           [] outcome.kind = "read_error" -> [err |-> "read", posted |-> TRUE]
           [] OTHER -> [err |-> IF StatusAccepted(outcome.status) THEN NoErr ELSE "status",
                        posted |-> TRUE]

--------------------------------------------------------------------------
(* main *)

Init ==
    /\ pc = "scrape"
    /\ i = 0
    /\ data = NilData
    /\ err = NoErr
    /\ minervaData = [CurrentStatus |-> EmptyStatus, SaleSchedule |-> <<>>]
    /\ lastDoc = NoDoc
    /\ webhookURL \in {<<>>, <<"h">>}
    /\ scrapeCalls = 0
    /\ notifyCalls = 0
    /\ scrapeSleeps = <<>>
    /\ notifySleeps = <<>>
    /\ posts = <<>>
    /\ stdout = <<>>
    /\ exitCode = NotExited
    /\ discardedRows = FALSE
    /\ elems = <<>>
    /\ handled = <<>>
    /\ cell = <<>>
    /\ location = <<>>

ScrapeSucceeded(d, e) == e = NoErr /\ d # NilData /\ Len(d.SaleSchedule) > 0

\* one iteration of the scrape loop up to its break
Scrape ==
    /\ pc = "scrape"
    /\ \E fetched \in FetchOutcomes :
         LET r == scrapeMinervaData(fetched) IN
         /\ lastDoc' = fetched
         /\ minervaData' = r.md
         /\ data' = r.data
         /\ err' = r.err
         /\ pc' = IF ScrapeSucceeded(r.data, r.err) THEN "scrape_check" ELSE "scrape_sleep"
         /\ discardedRows' = (discardedRows \/ (r.err # NoErr /\ r.md.SaleSchedule # <<>>))
    /\ scrapeCalls' = scrapeCalls + 1
    /\ UNCHANGED <<i, webhookURL, notifyCalls, scrapeSleeps, notifySleeps, posts,
                   stdout, exitCode, elems, handled, cell, location>>

NextIteration_offByOne(loop, after) ==
    /\ i' = i + 1
    /\ pc' = IF i + 1 <= maxRetries THEN loop ELSE after
    /\ IF loop = "scrape"
       THEN /\ scrapeSleeps' = Append(scrapeSleeps, retryDelay)
            /\ UNCHANGED notifySleeps
       ELSE /\ notifySleeps' = Append(notifySleeps, retryDelay)
            /\ UNCHANGED scrapeSleeps

\* the rest of a failed iteration: time.Sleep(retryDelay), i++, and the test
\* of i < maxRetries
NextIteration(loop, after) ==
    /\ i' = i + 1
    /\ pc' = IF i + 1 < maxRetries THEN loop ELSE after
    /\ IF loop = "scrape"
       THEN /\ scrapeSleeps' = Append(scrapeSleeps, retryDelay)
            /\ UNCHANGED notifySleeps
       ELSE /\ notifySleeps' = Append(notifySleeps, retryDelay)
            /\ UNCHANGED scrapeSleeps

ScrapeSleep ==
    /\ pc = "scrape_sleep"
    /\ NextIteration("scrape", "scrape_check")
    /\ UNCHANGED <<data, err, minervaData, lastDoc, webhookURL, scrapeCalls,
                   notifyCalls, posts, stdout, exitCode, discardedRows,
                   elems, handled, cell, location>>

\* the test after the scrape loop
ScrapeCheck ==
    /\ pc = "scrape_check"
    /\ IF err # NoErr \/ data = NilData \/ Len(data.SaleSchedule) = 0
       THEN /\ pc' = "exited"
            /\ exitCode' = 1
            /\ UNCHANGED i
       ELSE /\ pc' = "notify"
            /\ i' = 0
            /\ UNCHANGED exitCode
    /\ UNCHANGED <<data, err, minervaData, lastDoc, webhookURL, scrapeCalls,
                   notifyCalls, scrapeSleeps, notifySleeps, posts, stdout,
                   discardedRows, elems, handled, cell, location>>

\* one iteration of the Discord loop up to its break
Notify ==
    /\ pc = "notify"
    /\ \E outcome \in PostOutcomes :
         LET r == postToDiscord(webhookURL, outcome) IN
         /\ err' = r.err
         /\ posts' = IF r.posted THEN Append(posts, outcome) ELSE posts
         /\ pc' = IF r.err = NoErr THEN "notify_check" ELSE "notify_sleep"
    /\ notifyCalls' = notifyCalls + 1
    /\ UNCHANGED <<i, data, minervaData, lastDoc, webhookURL, scrapeCalls,
                   scrapeSleeps, notifySleeps, stdout, exitCode,
                   discardedRows, elems, handled, cell, location>>

NotifySleep ==
    /\ pc = "notify_sleep"
    /\ NextIteration("notify", "notify_check")
    /\ UNCHANGED <<data, err, minervaData, lastDoc, webhookURL, scrapeCalls,
                   notifyCalls, posts, stdout, exitCode, discardedRows,
                   elems, handled, cell, location>>

NotifyCheck_noExit ==
    /\ pc = "notify_check"
    /\ pc' = "report"
    /\ UNCHANGED <<i, data, err, minervaData, lastDoc, webhookURL, scrapeCalls,
                   notifyCalls, scrapeSleeps, notifySleeps, posts, stdout, exitCode,
                   discardedRows, elems, handled, cell, location>>

\* the test after the Discord loop
NotifyCheck ==
    /\ pc = "notify_check"
    /\ IF err # NoErr
       THEN /\ pc' = "exited"
            /\ exitCode' = 1
       ELSE /\ pc' = "report"
            /\ UNCHANGED exitCode
    /\ UNCHANGED <<i, data, err, minervaData, lastDoc, webhookURL, scrapeCalls,
                   notifyCalls, scrapeSleeps, notifySleeps, posts, stdout,
                   discardedRows, elems, handled, cell, location>>

\* printJSON(data) and the return of main
Report ==
    /\ pc = "report"
    /\ stdout' = Append(stdout, data)
    /\ pc' = "exited"
    /\ exitCode' = 0
    /\ UNCHANGED <<i, data, err, minervaData, lastDoc, webhookURL, scrapeCalls,
                   notifyCalls, scrapeSleeps, notifySleeps, posts,
                   discardedRows, elems, handled, cell, location>>

Next ==
    \/ Scrape
    \/ ScrapeSleep
    \/ ScrapeCheck
    \/ Notify
    \/ NotifySleep
    \/ NotifyCheck
    \/ Report

Spec == Init /\ [][Next]_vars

\* main is sequential and every call it makes (the fetch, the POST, the
\* sleep) returns, so a step that is possible is eventually taken
FairSpec == Init /\ [][Next]_vars /\ WF_vars(Next)

--------------------------------------------------------------------------
(* The extractSaleInfo callback, row by row *)

CellSamples == {<<>>, <<" ", "7", " ">>}

LocationSamples ==
    { <<" ">>,
      <<"N", "e", "x", "t", " ", "x">>,
      <<"V", " ", "N", "e", "x", "t">> }

ExtractRows ==
    [td1 : CellSamples, td2 : LocationSamples, td3 : CellSamples,
     td4 : CellSamples, bgDark : BOOLEAN]

InitExtract ==
    /\ pc = "callbacks"
    /\ elems \in SeqsUpTo(ExtractRows, MaxElems)
    /\ handled = <<>>
    /\ minervaData = [CurrentStatus |-> EmptyStatus, SaleSchedule |-> <<>>]
    /\ i = 0
    /\ data = NilData
    /\ err = NoErr
    /\ lastDoc = NoDoc
    /\ webhookURL = <<>>
    /\ scrapeCalls = 0
    /\ notifyCalls = 0
    /\ scrapeSleeps = <<>>
    /\ notifySleeps = <<>>
    /\ posts = <<>>
    /\ stdout = <<>>
    /\ exitCode = NotExited
    /\ discardedRows = FALSE
    /\ cell = <<>>
    /\ location = <<>>

\* colly hands the next matching row to the callback
OnScheduleRow ==
    /\ pc = "callbacks"
    /\ elems # <<>>
    /\ minervaData' = extractSaleInfo(minervaData, Head(elems))
    /\ handled' = Append(handled, Head(elems))
    /\ elems' = Tail(elems)
    /\ UNCHANGED <<pc, i, data, err, lastDoc, webhookURL, scrapeCalls, notifyCalls,
                   scrapeSleeps, notifySleeps, posts, stdout, exitCode,
                   discardedRows, cell, location>>

NextExtract == OnScheduleRow

SpecExtract == InitExtract /\ [][NextExtract]_vars

--------------------------------------------------------------------------
(* The location of a row, as a function of the text of its second cell *)

Pieces ==
    { <<" ">>, <<"V">>, <<"N", "e", "x", "t">>, <<"n", "e", "x", "t">>,
      <<"N", "e">>, <<"x", "t">>, <<":", "1">> }

RECURSIVE Concat(_)
Concat(ps) == IF ps = <<>> THEN <<>> ELSE Head(ps) \o Concat(Tail(ps))

Vault76Cell ==
    <<"V", "a", "u", "l", "t", " ", "7", "6", " ", "N", "e", "x", "t", ":",
      " ", "1", "4", ":", "3", "2">>

WhitespringCell ==
    <<"W", "h", "i", "t", "e", "s", "p", "r", "i", "n", "g", " ",
      "R", "e", "s", "o", "r", "t">>

CellTexts ==
    {Concat(ps) : ps \in SeqsUpTo(Pieces, MaxPieces)}
    \cup {Vault76Cell, WhitespringCell}

InitLocation ==
    /\ pc = "string"
    /\ cell \in CellTexts
    /\ location = <<>>
    /\ elems = <<>>
    /\ handled = <<>>
    /\ minervaData = [CurrentStatus |-> EmptyStatus, SaleSchedule |-> <<>>]
    /\ i = 0
    /\ data = NilData
    /\ err = NoErr
    /\ lastDoc = NoDoc
    /\ webhookURL = <<>>
    /\ scrapeCalls = 0
    /\ notifyCalls = 0
    /\ scrapeSleeps = <<>>
    /\ notifySleeps = <<>>
    /\ posts = <<>>
    /\ stdout = <<>>
    /\ exitCode = NotExited
    /\ discardedRows = FALSE

ExtractLocation ==
    /\ pc = "string"
    /\ location' = Location(cell)
    /\ pc' = "string_done"
    /\ UNCHANGED <<i, data, err, minervaData, lastDoc, webhookURL, scrapeCalls,
                   notifyCalls, scrapeSleeps, notifySleeps, posts, stdout, exitCode,
                   discardedRows, elems, handled, cell>>

NextLocation == ExtractLocation

SpecLocation == InitLocation /\ [][NextLocation]_vars

--------------------------------------------------------------------------
(* Vocabulary of the properties, stated without the operators above *)

Is2xx(status) == status \in 200..299

\* s without its leading and trailing white space
Trimmed(s) ==
    LET ink == {k \in 1..Len(s) : s[k] \notin {" ", "\n", "\t"}}
    IN  IF ink = {} THEN <<>>
        ELSE SubSeq(s, CHOOSE k \in ink : \A m \in ink : k <= m,
                       CHOOSE k \in ink : \A m \in ink : k >= m)

\* positions at which the literal "Next" occurs in s
NextAt(s) ==
    {k \in 1..Len(s) : /\ k + 3 <= Len(s)
                       /\ s[k] = "N" /\ s[k + 1] = "e"
                       /\ s[k + 2] = "x" /\ s[k + 3] = "t"}

\* the text of s before the first occurrence of "Next"; s itself if there is none
BeforeNext(s) ==
    IF NextAt(s) = {} THEN s
    ELSE SubSeq(s, 1, (CHOOSE k \in NextAt(s) : \A m \in NextAt(s) : k <= m) - 1)

\* the four string fields of a row as the schedule is to hold them
FieldsOf(row) ==
    [SaleNumber |-> Trimmed(row.td1), Location |-> Trimmed(BeforeNext(row.td2)),
     StartDate |-> Trimmed(row.td3), EndDate |-> Trimmed(row.td4)]

AllFour(f) ==
    f.SaleNumber # <<>> /\ f.Location # <<>> /\ f.StartDate # <<>> /\ f.EndDate # <<>>

RowKept(row) == AllFour(FieldsOf(row))

EntryOf(row) ==
    [SaleNumber |-> FieldsOf(row).SaleNumber, Location |-> FieldsOf(row).Location,
     StartDate |-> FieldsOf(row).StartDate, EndDate |-> FieldsOf(row).EndDate,
     IsNext |-> row.bgDark]

\* the entries of the complete rows, in the order of the rows
EntriesOf(rows) ==
    LET kept == SelectSeq(rows, RowKept)
    IN  [k \in 1..Len(kept) |-> EntryOf(kept[k])]

\* the status of a document: that of its last div.p-3 block, if it has one
StatusOf(doc) ==
    IF doc.containers = <<>> THEN [NextLocation |-> <<>>, ArrivalTime |-> <<>>]
    ELSE LET c == doc.containers[Len(doc.containers)]
         IN  [NextLocation |-> Trimmed(c.strong), ArrivalTime |-> Trimmed(c.countdown)]

ValidRecord(d) ==
    /\ d # NilData
    /\ d.CurrentStatus.NextLocation # <<>>
    /\ Len(d.SaleSchedule) >= 1

Stage1Failed == pc = "exited" /\ data = NilData

InStage2 == pc \in {"notify", "notify_sleep", "notify_check"}

AllResponsesNon2xx ==
    \A k \in 1..Len(posts) : posts[k].kind = "response" /\ ~Is2xx(posts[k].status)

--------------------------------------------------------------------------
(* Properties *)

\* C1: a run whose scrape attempts all fail makes exactly 3 attempts and
\* exactly 2 delays of 5 seconds, never calls postToDiscord and exits non-zero.
C1_ThreeAttemptsTwoDelays ==
    Stage1Failed =>
        /\ scrapeCalls = 3
        /\ scrapeSleeps = <<5, 5>>
        /\ notifyCalls = 0
        /\ exitCode \notin {NotExited, 0}

C3_FailsExactlyOnNon2xx ==
    (/\ webhookURL # <<>>
     /\ notifyCalls > 0
     /\ pc \in {"notify_sleep", "notify_check"}
     /\ posts # <<>>
     /\ posts[Len(posts)].kind = "response") =>
        /\ (err # NoErr) <=> ~Is2xx(posts[Len(posts)].status)
        /\ Is2xx(posts[Len(posts)].status) => pc # "notify_sleep"

\* C4: when scrape attempts 1 and 2 fail, attempt 3 returns a valid record and
\* the webhook accepts the first POST, postToDiscord is called exactly once,
\* and the run ends with the record on stdout and exit status 0.
C4_RetrySuccessPath ==
    (/\ scrapeCalls = 3
     /\ data # NilData
     /\ posts # <<>>
     /\ posts[1].kind = "response"
     /\ Is2xx(posts[1].status)) =>
        /\ notifyCalls = 1
        /\ pc = "exited" => (exitCode = 0 /\ stdout = <<data>>)

\* C5: when the scrape succeeded and every webhook response is non-2xx,
\* postToDiscord is called exactly 3 times, the run exits non-zero, and
\* printJSON never runs: nothing is written to stdout.
C5_Non2xxExhaustsNotifier ==
    (webhookURL # <<>> /\ notifyCalls > 0 /\ AllResponsesNon2xx) =>
        /\ stdout = <<>>
        /\ pc # "report"
        /\ exitCode # 0
        /\ notifyCalls <= 3
        /\ pc = "notify" => notifyCalls < 3
        /\ pc = "exited" => (notifyCalls = 3 /\ exitCode = 1)

C5_Witness ==
    /\ pc = "exited"
    /\ ValidRecord(data)
    /\ Len(posts) = 3
    /\ \A k \in 1..3 : posts[k] = [kind |-> "response", status |-> 500]

\* C6: whenever postToDiscord or printJSON is (about to be) invoked, the
\* record passed has a non-empty nextLocation and at least one schedule entry;
\* and an attempt whose extracted record lacks either is a failed attempt.
C6_OnlyValidRecordsLeaveStage1 ==
    /\ (InStage2 \/ pc = "report" \/ notifyCalls > 0 \/ stdout # <<>>) => ValidRecord(data)
    /\ \A k \in 1..Len(stdout) : ValidRecord(stdout[k])
    /\ (/\ scrapeCalls > 0
        /\ \/ minervaData.CurrentStatus.NextLocation = <<>>
           \/ minervaData.SaleSchedule = <<>>) =>
          /\ data = NilData
          /\ err # NoErr
          /\ ~InStage2
          /\ notifyCalls = 0

C6_Witness ==
    /\ notifyCalls > 0
    /\ ValidRecord(data)
    /\ discardedRows

\* C7: the record is on stdout and the exit status is 0 only after a scrape
\* attempt returned a valid record and a later postToDiscord call succeeded;
\* a run that exits 1 has printed nothing; a run ends with 0 or 1 only.
C7_ReportOnlyAfterNotify ==
    /\ exitCode \in {NotExited, 0, 1}
    /\ (pc = "exited") <=> (exitCode \in {0, 1})
    /\ exitCode = 1 => stdout = <<>>
    /\ (stdout # <<>> \/ exitCode = 0 \/ pc = "report") =>
          /\ scrapeCalls >= 1
          /\ ValidRecord(data)
          /\ notifyCalls >= 1
          /\ err = NoErr
          /\ posts # <<>>
          /\ posts[Len(posts)].kind = "response"
          /\ Is2xx(posts[Len(posts)].status)
    /\ stdout # <<>> => (stdout = <<data>> /\ exitCode = 0)
    /\ exitCode = 0 => stdout = <<data>>

C7_Witness ==
    /\ exitCode = 0
    /\ stdout = <<data>>
    /\ notifyCalls = 2

\* C8: the record of a scrape attempt holds the status and the complete rows
\* of that attempt's document only, in document order; nothing of earlier
\* attempts is in it, and the record returned is that record.
C8_FreshRecordPerAttempt ==
    /\ (scrapeCalls > 0 /\ lastDoc # NoDoc) =>
          minervaData = [CurrentStatus |-> StatusOf(lastDoc),
                         SaleSchedule  |-> EntriesOf(lastDoc.rows)]
    /\ (scrapeCalls > 0 /\ lastDoc = NoDoc) => data = NilData
    /\ data # NilData => data = minervaData

C8_Witness ==
    /\ scrapeCalls = 3
    /\ discardedRows
    /\ data # NilData
    /\ Len(data.SaleSchedule) = 2
    /\ data.SaleSchedule[1].SaleNumber = <<"2">>
    /\ data.SaleSchedule[2].SaleNumber = <<"1">>

\* C9: the callback appends a row exactly when its four fields are non-empty
\* after trimming (the location after truncation); other rows are dropped and
\* leave the entries of the rows around them untouched, so every entry of the
\* schedule has four non-empty string fields.
C9_OnlyCompleteRowsAppended ==
    pc = "callbacks" =>
        /\ minervaData.SaleSchedule = EntriesOf(handled)
        /\ \A k \in 1..Len(minervaData.SaleSchedule) :
              AllFour(minervaData.SaleSchedule[k])

C9_Witness ==
    /\ pc = "callbacks"
    /\ Len(handled) = 2
    /\ ~RowKept(handled[1])
    /\ RowKept(handled[2])
    /\ Len(minervaData.SaleSchedule) = 1

\* C10: the location is the cell text before the first "Next", trimmed; the
\* whole cell text trimmed when it holds no "Next".
C10_LocationTruncatedAtNext ==
    pc = "string_done" =>
        /\ location = Trimmed(BeforeNext(cell))
        /\ NextAt(cell) = {} => location = Trimmed(cell)
        /\ cell = Vault76Cell => location = <<"V", "a", "u", "l", "t", " ", "7", "6">>
        /\ cell = WhitespringCell => location = WhitespringCell

C10_Witness ==
    /\ pc = "string_done"
    /\ Cardinality(NextAt(cell)) = 2
    /\ location = <<"V">>

\* The state of the program's state machine. Start is the initial state:
\* main enters the scrape loop at once, so the run is in Scraping from its
\* first state on, until the scrape loop is left.
Phase ==
    CASE pc \in {"scrape", "scrape_sleep"} -> "Scraping"
      [] pc = "scrape_check" -> IF err = NoErr /\ data # NilData THEN "Scraped"
                                ELSE "ScrapeFailed"
      [] pc \in {"notify", "notify_sleep"} -> "Notifying"
      [] pc = "notify_check" -> IF err = NoErr THEN "Notified" ELSE "NotifyFailed"
      [] pc = "report" -> "Reporting"
      [] pc = "exited" -> IF exitCode = 0 THEN "Done" ELSE "Failed"
      [] OTHER -> "None"

\* the transitions of the state machine, those into Failed included
Transitions ==
    { <<"Scraping", "Scraped">>, <<"Scraping", "ScrapeFailed">>,
      <<"Scraped", "Notifying">>,
      <<"Notifying", "Notified">>, <<"Notifying", "NotifyFailed">>,
      <<"Notified", "Reporting">>, <<"Reporting", "Done">>,
      <<"ScrapeFailed", "Failed">>, <<"NotifyFailed", "Failed">> }

Terminated == pc = "exited" /\ exitCode \in {0, 1}

\* C11: every run (whose calls all return) reaches a terminal state, Done or
\* Failed, and stays in it; it starts in the scrape loop and changes state
\* only along the transitions of the state machine; it makes at most 3 scrape
\* attempts and at most 3 postToDiscord calls, and no scrape attempt after
\* the first postToDiscord call.
C11_TerminatesAlongStateMachine ==
    /\ Phase = "Scraping" /\ scrapeCalls = 0 /\ notifyCalls = 0
    /\ <>Terminated
    /\ [][~Terminated]_vars
    /\ [][Phase' = Phase \/ <<Phase, Phase'>> \in Transitions]_vars
    /\ [](scrapeCalls <= 3 /\ notifyCalls <= 3)
    /\ [][notifyCalls > 0 => scrapeCalls' = scrapeCalls]_vars
    /\ [][scrapeCalls' # scrapeCalls => Phase = "Scraping"]_vars
    /\ [][notifyCalls' # notifyCalls => Phase = "Notifying"]_vars

C11_Witness ==
    /\ Terminated
    /\ exitCode = 0
    /\ scrapeCalls = 3
    /\ notifyCalls = 3

==========================================================================
